---- MODULE Spec2Model ----
(***************************************************************************)
(* Multi-agent game tester: the bounded-concurrency execution engine       *)
(* (ExecutorAgent + BrowserService) and the suite orchestrator             *)
(* (OrchestratorAgent + the web layer of app/main.py).                     *)
(*                                                                         *)
(* The specifications that share the module:                               *)
(*   SpecExec  one ExecutorAgent.execute_test_cases batch: initialize,     *)
(*             the semaphore-gated fan-out of run_single, gather, the      *)
(*             result loop, cleanup.                                       *)
(*   SpecSuite suite runs started through start_test and run in the        *)
(*             background by run_web_test_suite on the global             *)
(*             OrchestratorAgent.                                          *)
(*   SpecApi   one suite run, with the status and report queries of        *)
(*             app/main.py made while it runs.                             *)
(*   SpecCall  one BrowserService.execute_test_case call.                  *)
(*   SpecPlanner  one PlannerAgent.generate_test_cases call.               *)
(*   SpecRanker   one RankerAgent.rank_test_cases call.                    *)
(*   SpecReport   the report aggregation made twice over one result list.  *)
(*   SpecPipeline one suite run followed through its executor batch.       *)
(*   SpecExecFair SpecExec under the scheduling of the event loop.         *)
(*   SpecShared   two execute_test_cases calls on the one BrowserService. *)
(* The variables of the layer a specification does not exercise keep       *)
(* their initial value.                                                    *)
(***************************************************************************)
EXTENDS Integers, Sequences, FiniteSets, TLC

\* ------------------------------------------------------------------
\* Bounds of the model (not program constants).
\* ------------------------------------------------------------------
MaxTests == 3
MaxSteps == 2
MaxClock == 2           \* last tick of the model's clock (two ticks make a second)
MaxCandidates == 2      \* most test cases the planner returns
MaxLines == 2           \* most lines of a reply of the ranking model

\* ExecutorAgent.__init__: self.max_concurrent_tests = 3
DefaultMaxConcurrentTests == 3

VARIABLES
    \* ---- ExecutorAgent / BrowserService (one batch) ----
    variant,              \* which BrowserService is installed: "real" | "sim"
    test_cases,           \* the test_cases argument of execute_test_cases
    max_concurrent_tests, \* ExecutorAgent.max_concurrent_tests
    semaphore,            \* free slots of asyncio.Semaphore(max_concurrent_tests)
    execPc,               \* position of execute_test_cases
    execError,            \* the fault execute_test_cases raised, or NoMessage
    runPc,                \* position of each run_single coroutine
    results,              \* what asyncio.gather collected for each run
    processed,            \* the list execute_test_cases builds and returns
    ownOutcome,           \* per run: how its own execution went ("pending" before it ends)
    playwright,           \* BrowserService.playwright: "none" | "started" | "stopped"
    browser,              \* BrowserService.browser:    "none" | "open" | "closed"
    open_contexts,        \* runs whose browser context is open
    \* ---- OrchestratorAgent / app.main (suite runs) ----
    now,                  \* the wall clock, in ticks of half a second
    suitePc,              \* position of each suite run (start_test .. run_web_test_suite)
    task_id,              \* the task_id of each suite run
    execute_count,        \* argument of execute_test_suite (0 once it has ended)
    candidate_tests,      \* local of execute_test_suite (empty once it has ended)
    ranked_tests,         \* local of execute_test_suite (empty once it has ended)
    published,            \* per suite run: the status lines _update_task_status printed
    active_tasks,         \* OrchestratorAgent.active_tasks
    reports_storage,      \* app.main.reports_storage
    \* ---- single calls followed on their own ----
    response,             \* what a status or report query handler is returning
    call,                 \* one BrowserService.execute_test_case call
    planner,              \* one PlannerAgent.generate_test_cases call
    ranker,               \* one RankerAgent.rank_test_cases call
    assembly,             \* the report assembled, twice, over one result sequence
    shared                \* two execute_test_cases calls on the one BrowserService

execVars == << variant, test_cases, max_concurrent_tests, semaphore, execPc, execError,
               runPc, results, processed, ownOutcome, playwright, browser, open_contexts >>

suiteVars == << now, suitePc, task_id, execute_count, candidate_tests, ranked_tests,
                published, active_tasks, reports_storage >>

callVars == << response, call, planner, ranker, assembly, shared >>

\* what the actions of one of the single calls leave alone among them
exceptResponse == << call, planner, ranker, assembly, shared >>
exceptCall == << response, planner, ranker, assembly, shared >>
exceptPlanner == << response, call, ranker, assembly, shared >>
exceptRanker == << response, call, planner, assembly, shared >>
exceptAssembly == << response, call, planner, ranker, shared >>
exceptShared == << response, call, planner, ranker, assembly >>

\* what the actions of one layer leave alone
nonExecVars == << suiteVars, callVars >>
nonSuiteVars == << execVars, callVars >>

vars == << execVars, suiteVars, callVars >>

\* ------------------------------------------------------------------
\* Data
\* ------------------------------------------------------------------
NoMessage == "<none>"       \* error_message absent (real) or None (simulation)

Variants == {"real", "sim"}

\* test_case.steps has 1..MaxSteps entries; the step count is tied to the id so
\* that a batch mixes short and long test cases.
StepsOf(id) == 1 + (id % MaxSteps)

TestCaseOf(id) == [id |-> id, steps |-> StepsOf(id)]

\* The lists handed to the executor: the orchestrator passes a prefix of the
\* ranked candidates, so ids are distinct but not in position order.  The
\* lists enumerated carry the ids n, n-1, .., 1.
TestCaseLists == { [i \in 1..n |-> TestCaseOf(n + 1 - i)] : n \in 0..MaxTests }

\* An artifact reference: artifacts/screenshots/{task_id}_{test_id}_{label}.<ext>.
\* The task id is the same for a whole batch and is left out here.
Artifact(id, label, n, ext) == [test |-> id, label |-> label, n |-> n, ext |-> ext]

\* A result record (the dict execute_test_case returns, or the one the
\* executor synthesises).  start_time and duration_ms are not modelled.
Record(id, status, verdict, artifacts, msg) ==
    [test_case_id |-> id, status |-> status, verdict |-> verdict,
     artifacts |-> artifacts, error_message |-> msg]

NoRecord == Record(0, "", "", << >>, NoMessage)

\* What gather holds for a run: still pending, a returned record, or an exception.
Pending == [kind |-> "pending", rec |-> NoRecord, msg |-> NoMessage]
Returned(rec) == [kind |-> "ok", rec |-> rec, msg |-> NoMessage]
Raised(msg) == [kind |-> "exc", rec |-> NoRecord, msg |-> msg]


\* ------------------------------------------------------------------
\* BrowserService.execute_test_case (Playwright variant)
\* ------------------------------------------------------------------
\* Where the environment makes a call of one run fault.  fault is the first
\* call that raises after the context was opened (op "none": no call raises):
\*   new_page      ctx.new_page()
\*   goto          page.goto / page.wait_for_timeout
\*   start         the "start" screenshot
\*   step          _execute_game_step of step `at` raises
\*   step_timeout  _execute_game_step of step `at` exceeds its 5000 ms timeout
\*   shot          the screenshot after step `at`
\* errShot: the "error" screenshot of the except branch raises;
\* pageClose / ctxClose: page.close() / ctx.close() of the finally block raise.
FaultPoints(tc) ==
    { [op |-> o, at |-> 0] : o \in {"none", "new_page", "goto", "start"} } \cup
    { [op |-> o, at |-> j] : o \in {"step", "step_timeout", "shot"}, j \in 1..tc.steps }

\* Only the choices the run can get to: the except branch is entered only after
\* a fault in the try block, ctx.close() only after page.close() returned.
RealPlans(tc) ==
    { p \in [fault : FaultPoints(tc), errShot : BOOLEAN,
             pageClose : BOOLEAN, ctxClose : BOOLEAN] :
        /\ p.fault.op = "new_page" => ~p.errShot /\ ~p.pageClose /\ ~p.ctxClose
        /\ p.fault.op = "none" => ~p.errShot
        /\ p.pageClose => ~p.ctxClose }

StepArtifacts(id, k) == [j \in 1..k |-> Artifact(id, "step", j, "png")]

\* artifacts as the try block leaves it when `fault` interrupts it
TryArtifacts(tc, fault) ==
    IF fault.op \in {"goto", "start"} THEN << >>
    ELSE IF fault.op \in {"step", "step_timeout", "shot"}
         THEN << Artifact(tc.id, "start", 0, "png") >> \o StepArtifacts(tc.id, fault.at - 1)
         ELSE << Artifact(tc.id, "start", 0, "png") >> \o StepArtifacts(tc.id, tc.steps)

\* The call from ctx.new_page() on (the context is open).  out: what the caller
\* gets; ctx: the context afterwards.
ExecuteTestCase(tc, p) ==
    IF p.fault.op = "new_page"
    THEN \* raised before the try statement: nothing closes the context
         [out |-> Raised("new_page"), ctx |-> "open"]
    ELSE LET faulted == p.fault.op # "none"
             verdict == IF faulted THEN "FAIL" ELSE "PASS"
             artifacts == TryArtifacts(tc, p.fault) \o
                          (IF faulted /\ ~p.errShot
                           THEN << Artifact(tc.id, "error", 0, "png") >> ELSE << >>)
         IN  IF p.pageClose
             THEN \* finally: page.close() raises, ctx.close() is skipped
                  [out |-> Raised("page.close"), ctx |-> "open"]
             ELSE IF p.ctxClose
             THEN [out |-> Raised("ctx.close"), ctx |-> "open"]
             ELSE IF faulted /\ p.errShot
             THEN \* the except branch raised; it propagates after the finally block
                  [out |-> Raised("screenshot:error"), ctx |-> "closed"]
             ELSE [out |-> Returned(Record(tc.id, verdict, verdict, artifacts, NoMessage)),
                   ctx |-> "closed"]

\* How the run's own execution went: "clean" no call faulted; "step" a step
\* raised or timed out; "fault" another call of the run faulted.
RealOwn(p) ==
    IF p.fault.op \in {"step", "step_timeout"} THEN "step"
    ELSE IF p.fault.op = "none" /\ ~p.pageClose /\ ~p.ctxClose THEN "clean"
    ELSE "fault"

\* ------------------------------------------------------------------
\* BrowserService._simulate_browser_test (simulation variant)
\* ------------------------------------------------------------------
\* _create_demo_screenshot: "png" the image is saved; "txt" drawing failed and
\* the text fallback was written; "raise" mkdir or the fallback write raised.
ShotOutcomes == {"png", "txt", "raise"}

SimPlans ==
    { p \in [start : ShotOutcomes, end : ShotOutcomes, success : BOOLEAN] :
        p.start = "raise" => p.end = "png" /\ p.success }

SimulateBrowserTest(tc, p) ==
    IF p.start = "raise" THEN Raised("screenshot:start")
    ELSE IF p.end = "raise" THEN Raised("screenshot:end")
    ELSE Returned(Record(tc.id,
                         IF p.success THEN "PASSED" ELSE "FAILED",
                         IF p.success THEN "PASS" ELSE "FAIL",
                         << Artifact(tc.id, "start", 0, p.start),
                            Artifact(tc.id, "end", 0, p.end) >>,
                         IF p.success THEN NoMessage ELSE "Simulated test failure"))

\* "failed": the simulated test did not succeed (random.random() <= 0.05)
SimOwn(p) ==
    IF p.start = "raise" \/ p.end = "raise" THEN "fault"
    ELSE IF p.success THEN "clean" ELSE "failed"


\* ------------------------------------------------------------------
\* Suite data: status observations, reports
\* ------------------------------------------------------------------
\* The two suite runs the model follows (two background tasks on the one
\* global OrchestratorAgent).
SuiteRuns == {1, 2}

\* a Python dict as a function: d[k] = v
DictSet(d, k, v) == [x \in (DOMAIN d) \cup {k} |-> IF x = k THEN v ELSE d[x]]

EmptyDict == << >>

\* a status message: a fixed text, or "Executing top {n} test cases"
Message(text, n) == [text |-> text, n |-> n]

Observation(status, message, t) ==
    [status |-> status, message |-> message, updated_at |-> t]

\* (variation of UpdateTaskStatus: the registry is replaced by one that holds
\* the new observation only)
UpdateTaskStatusReplacing(st, tid, status, message, t) ==
    [tasks |-> DictSet(EmptyDict, tid, Observation(status, message, t)),
     log |-> Append(st.log, status)]

\* OrchestratorAgent._update_task_status: overwrite the observation of
\* task_id and print the status line.  st = [tasks, log]: the registry and
\* the lines printed so far by the calling run.
UpdateTaskStatus(st, tid, status, message, t) ==
    [tasks |-> DictSet(st.tasks, tid, Observation(status, message, t)),
     log |-> Append(st.log, status)]

\* OrchestratorAgent.get_task_status: self.active_tasks.get(task_id)
NotFound == Observation("<not found>", Message("", 0), -1)

GetTaskStatus(tasks, tid) == IF tid \in DOMAIN tasks THEN tasks[tid] ELSE NotFound

\* (variation of CollectArtifacts: each result's artifacts are put in front of
\* those collected so far)
RECURSIVE CollectArtifactsPrepending(_)
CollectArtifactsPrepending(execution_results) ==
    IF execution_results = << >> THEN << >>
    ELSE CollectArtifactsPrepending(Tail(execution_results)) \o Head(execution_results).artifacts

\* OrchestratorAgent._collect_artifacts
RECURSIVE CollectArtifacts(_)
CollectArtifacts(execution_results) ==
    IF execution_results = << >> THEN << >>
    ELSE Head(execution_results).artifacts \o CollectArtifacts(Tail(execution_results))

\* (variation of SuccessfulTests: every result that is not an ERROR counts)
RECURSIVE SuccessfulTestsNotError(_)
SuccessfulTestsNotError(execution_results) ==
    IF execution_results = << >> THEN 0
    ELSE (IF Head(execution_results).verdict # "ERROR" THEN 1 ELSE 0)
         + SuccessfulTestsNotError(Tail(execution_results))

\* sum(1 for result in execution_results if result.get("verdict") == "PASS")
RECURSIVE SuccessfulTests(_)
SuccessfulTests(execution_results) ==
    IF execution_results = << >> THEN 0
    ELSE (IF Head(execution_results).verdict = "PASS" THEN 1 ELSE 0)
         + SuccessfulTests(Tail(execution_results))

\* (variation of SuccessRate: the division is not guarded against an empty
\* result list)
SuccessRateUnguarded(execution_results) ==
    [num |-> SuccessfulTests(execution_results), den |-> Len(execution_results)]

\* successful_tests / len(execution_results) if execution_results else 0,
\* kept as the fraction num/den
SuccessRate(execution_results) ==
    IF execution_results = << >> THEN [num |-> 0, den |-> 1]
    ELSE [num |-> SuccessfulTests(execution_results), den |-> Len(execution_results)]

\* TestReport(...) as execute_test_suite builds it (timestamp not modelled)
TestReport(tid, candidates, execution_results) ==
    [task_id |-> tid,
     total_candidates |-> Len(candidates),
     executed_tests |-> Len(execution_results),
     success_rate |-> SuccessRate(execution_results),
     execution_results |-> execution_results,
     artifacts |-> CollectArtifacts(execution_results)]

\* the error report run_web_test_suite stores when the suite raised
FailureEntry(tid, error) == [task_id |-> tid, status |-> "failed", error |-> error]

IsTestReport(entry) == "execution_results" \in DOMAIN entry

\* (variation of SlicePrefix: the slice takes one element more)
SlicePrefixOneMore(seq, k) ==
    SubSeq(seq, 1, IF k + 1 < Len(seq) THEN k + 1 ELSE Len(seq))

\* ranked_tests[:execute_count], Python slice semantics
SlicePrefix(seq, k) ==
    LET n == IF k >= 0 THEN (IF k < Len(seq) THEN k ELSE Len(seq))
             ELSE (IF Len(seq) + k > 0 THEN Len(seq) + k ELSE 0)
    IN  SubSeq(seq, 1, n)

\* (the clock is read first in the second half of a second)
SuiteIdle ==
    /\ now = 1
    /\ suitePc = [r \in SuiteRuns |-> "idle"]
    /\ task_id = [r \in SuiteRuns |-> -1]
    /\ execute_count = [r \in SuiteRuns |-> 0]
    /\ candidate_tests = [r \in SuiteRuns |-> << >>]
    /\ ranked_tests = [r \in SuiteRuns |-> << >>]
    /\ published = [r \in SuiteRuns |-> << >>]
    /\ active_tasks = EmptyDict
    /\ reports_storage = EmptyDict

\* ------------------------------------------------------------------
\* Query handlers of app.main: data
\* ------------------------------------------------------------------
\* no query handler is returning
NoResponse == [kind |-> "none", tid |-> -1, body |-> [status_code |-> 0]]

\* get_test_status when the orchestrator has no observation
StatusNotFound(tid) == [status |-> "not_found", task_id |-> tid]

\* raise HTTPException(status_code=404, ...)
ReportNotFound == [status_code |-> 404]

\* ------------------------------------------------------------------
\* One execute_test_case call: what it attempts, in order
\* ------------------------------------------------------------------
Capture(label, n) == [ev |-> "capture", label |-> label, n |-> n]
Step(n) == [ev |-> "step", label |-> "step", n |-> n]

\* the loop over test_case.steps up to and including step k, each step
\* followed by its screenshot
RECURSIVE StepEvents(_)
StepEvents(k) ==
    IF k = 0 THEN << >>
    ELSE StepEvents(k - 1) \o << Step(k), Capture("step", k) >>

\* Playwright variant: the steps run and the captures attempted (whether or
\* not they succeed) by a call that follows plan p, from ctx.new_page() on
Events(tc, p) ==
    LET f == p.fault
        tried ==
            IF f.op \in {"new_page", "goto"} THEN << >>
            ELSE IF f.op = "start" THEN << Capture("start", 0) >>
            ELSE IF f.op = "shot"
                 THEN << Capture("start", 0) >> \o StepEvents(f.at)
            ELSE IF f.op \in {"step", "step_timeout"}
                 THEN << Capture("start", 0) >> \o StepEvents(f.at - 1) \o << Step(f.at) >>
            ELSE << Capture("start", 0) >> \o StepEvents(tc.steps)
    IN  IF f.op \in {"none", "new_page"} THEN tried
        ELSE tried \o << Capture("error", 0) >>

\* simulation: the "start" capture and, unless it raised, the simulated
\* steps and the "end" capture
SimEvents(tc, p) ==
    IF p.start = "raise" THEN << Capture("start", 0) >>
    ELSE << Capture("start", 0) >> \o [j \in 1..tc.steps |-> Step(j)]
         \o << Capture("end", 0) >>

NoPlan == [fault |-> [op |-> "unset", at |-> 0], errShot |-> FALSE,
           pageClose |-> FALSE, ctxClose |-> FALSE]

CallIdle(v, tc) ==
    [pc |-> "idle", variant |-> v, tc |-> tc, plan |-> NoPlan,
     out |-> Pending, ctx |-> "none", events |-> << >>]

\* ------------------------------------------------------------------
\* One PlannerAgent.generate_test_cases call: data
\* ------------------------------------------------------------------
\* the blocks response.split('---') yields: one of only white space, or one
\* with text
BlockKinds == {"blank", "text"}

\* the model call raised (or its content is no string)
LlmRaises == << "raise" >>

\* a test case as far as the planner's callers look at it
PlannedCase(prefix, n) == [id |-> [prefix |-> prefix, n |-> n]]

\* for i, block in enumerate(test_blocks[:20])
ParseLimit == 20

\* the replies of the model: it raises, or its text splits into up to
\* MaxCandidates + 1 blocks (split always yields at least one)
Replies ==
    {LlmRaises} \cup UNION { [1..n -> BlockKinds] : n \in 1..(MaxCandidates + 1) }

\* the count argument: test_count of the request, a plain int
Counts == (0 - 1)..MaxCandidates

\* PlannerAgent._parse_response_to_test_cases: a blank block is skipped, any
\* other becomes a test case with id test_{i+1:03d}, i the block's index
RECURSIVE ParseLoop(_, _, _)
ParseLoop(blocks, i, acc) ==
    IF i > Len(blocks) \/ i > ParseLimit THEN acc
    ELSE ParseLoop(blocks, i + 1,
                   IF blocks[i] = "blank" THEN acc
                   ELSE Append(acc, PlannedCase("test", i)))

ParseResponseToTestCases(blocks) == ParseLoop(blocks, 1, << >>)

\* PlannerAgent._get_fallback_test_cases: sumlink_{i+1:03d} for i in
\* range(count), then result[:count]
GetFallbackTestCases(count) ==
    SlicePrefix([i \in 1..count |-> PlannedCase("sumlink", i)], count)

PlannerIdle(count, reply) ==
    [pc |-> "idle", count |-> count, reply |-> reply, out |-> << >>]

\* ------------------------------------------------------------------
\* One RankerAgent.rank_test_cases call: data
\* ------------------------------------------------------------------
Priorities == {"HIGH", "MEDIUM", "LOW"}

\* rank_score: Optional[float].  None, a number, or the float nan (which
\* float() parses from the text "nan")
NoScore == [kind |-> "none", v |-> 0]
Num(x) == [kind |-> "num", v |-> x]
NaN == [kind |-> "nan", v |-> 0]

\* a test case as far as the ranker looks at it
RankedCase(id, priority, score) == [id |-> id, priority |-> priority, rank_score |-> score]

\* the scores a reply line can carry
ReplyScores == {Num(50), Num(90), NaN}

\* a line of the reply: one without ':', one whose score float() rejects, or
\* "<id>: <score>" (the id may be one no test case has)
ScoreLine(id, score) == [kind |-> "score", id |-> id, score |-> score]

ReplyLines ==
    { [kind |-> k, id |-> 0, score |-> NoScore] : k \in {"nocolon", "badscore"} } \cup
    { ScoreLine(id, sc) : id \in 1..(MaxCandidates + 1), sc \in ReplyScores }

\* the model call raised (or its content is no string, so that
\* _apply_rankings raises before it assigns anything)
RankerModelRaises == [raises |-> TRUE, lines |-> << >>]

RankerReplies ==
    {RankerModelRaises} \cup
    { [raises |-> FALSE, lines |-> ls] :
        ls \in UNION { [1..n -> ReplyLines] : n \in 0..MaxLines } }

\* the lists handed to the ranker: distinct ids, any priorities, and either
\* no score yet (as the planner returns them) or a score from an earlier call
RankerInputs ==
    UNION { { [i \in 1..n |-> RankedCase(i, pr[i], sc)] : pr \in [1..n -> Priorities] } :
            n \in 0..MaxCandidates, sc \in {NoScore, Num(95)} }

\* key=lambda t: t.rank_score or 0
SortKey(t) ==
    IF t.rank_score.kind = "none" THEN Num(0) ELSE t.rank_score

\* a < b on floats: every comparison with nan is false
KeyLess(a, b) == a.kind = "num" /\ b.kind = "num" /\ a.v < b.v

\* (variation of InsertDesc: a test case whose key is already present is
\* dropped, as sorting a set of keys would)
RECURSIVE InsertDescUnique(_, _)
InsertDescUnique(seq, t) ==
    IF seq = << >> THEN << t >>
    ELSE IF SortKey(Head(seq)) = SortKey(t) THEN seq
    ELSE IF KeyLess(SortKey(Head(seq)), SortKey(t)) THEN << t >> \o seq
    ELSE << Head(seq) >> \o InsertDescUnique(Tail(seq), t)

\* sorted(..., reverse=True) is stable: t, which comes later in the input,
\* goes behind every element whose key is not smaller than its own
RECURSIVE InsertDesc(_, _)
InsertDesc(seq, t) ==
    IF seq = << >> THEN << t >>
    ELSE IF KeyLess(SortKey(Head(seq)), SortKey(t)) THEN << t >> \o seq
    ELSE << Head(seq) >> \o InsertDesc(Tail(seq), t)

RECURSIVE SortLoop(_, _, _)
SortLoop(seq, i, acc) ==
    IF i > Len(seq) THEN acc ELSE SortLoop(seq, i + 1, InsertDesc(acc, seq[i]))

SortDesc(seq) == SortLoop(seq, 1, << >>)

Bijections(n) == { f \in [1..n -> 1..n] : \A i, j \in 1..n : i # j => f[i] # f[j] }

PermutationsOf(seq) == { [i \in 1..Len(seq) |-> seq[f[i]]] : f \in Bijections(Len(seq)) }

\* sorted(test_cases, key=lambda t: t.rank_score or 0, reverse=True): the
\* stable descending order; with a nan key the comparisons are inconsistent
\* and the order sorted leaves is not defined (some order of the same items)
SortedByRankScore(tcs) ==
    IF \E i \in 1..Len(tcs) : SortKey(tcs[i]).kind = "nan"
    THEN PermutationsOf(tcs)
    ELSE {SortDesc(tcs)}

\* for test in test_cases: if test.id == test_id: ...; break
FirstWithId(tcs, id) ==
    IF \E j \in 1..Len(tcs) : tcs[j].id = id
    THEN CHOOSE j \in 1..Len(tcs) :
             tcs[j].id = id /\ \A k \in 1..(j - 1) : tcs[k].id # id
    ELSE 0

\* RankerAgent._apply_rankings: line by line; a line without ':' is skipped,
\* a score float() rejects is skipped, a score for an id is assigned to the
\* first test case with that id
RECURSIVE ApplyLines(_, _, _)
ApplyLines(tcs, lines, i) ==
    IF i > Len(lines) THEN tcs
    ELSE LET line == lines[i]
             j == FirstWithId(tcs, line.id)
         IN  ApplyLines(IF line.kind = "score" /\ j # 0
                        THEN [tcs EXCEPT ![j].rank_score = line.score]
                        ELSE tcs,
                        lines, i + 1)

ApplyRankings(tcs, lines) == ApplyLines(tcs, lines, 1)

\* the scores of RankerAgent._fallback_ranking
FallbackScore(priority) ==
    CASE priority = "HIGH" -> 90
      [] priority = "MEDIUM" -> 70
      [] OTHER -> 50

\* (variation of FallbackRanking: a test case that has a score keeps it)
FallbackRankingKeepingScores(tcs) ==
    SortDesc([i \in 1..Len(tcs) |->
                IF tcs[i].rank_score.kind = "none"
                THEN [tcs[i] EXCEPT !.rank_score = Num(FallbackScore(tcs[i].priority))]
                ELSE tcs[i]])

\* RankerAgent._fallback_ranking
FallbackRanking(tcs) ==
    SortDesc([i \in 1..Len(tcs) |->
                [tcs[i] EXCEPT !.rank_score = Num(FallbackScore(tcs[i].priority))]])

RankerIdle(tcs, reply) ==
    [pc |-> "idle", test_cases |-> tcs, reply |-> reply, out |-> << >>]

\* ------------------------------------------------------------------
\* Report assembly over one result sequence: data
\* ------------------------------------------------------------------
NoAssembly == [success_rate |-> [num |-> 0, den |-> 1], artifacts |-> << >>]

\* (variation of AssembleReport: the artifacts are moved out of the result
\* records, as result.pop("artifacts", []) would)
AssembleReportDraining(execution_results) ==
    [success_rate |-> SuccessRate(execution_results),
     artifacts |-> CollectArtifacts(execution_results),
     execution_results |-> [i \in 1..Len(execution_results) |->
                               [execution_results[i] EXCEPT !.artifacts = << >>]]]

\* the aggregation of execute_test_suite: success rate and collected
\* artifacts, and the result list as the aggregation leaves it (it reads the
\* records with .get and extends a list of its own)
AssembleReport(execution_results) ==
    [success_rate |-> SuccessRate(execution_results),
     artifacts |-> CollectArtifacts(execution_results),
     execution_results |-> execution_results]

AssemblyIdle(execution_results) ==
    [pc |-> "idle", given |-> execution_results, execution_results |-> execution_results,
     first |-> NoAssembly, second |-> NoAssembly]

ResponseAtRest == response = NoResponse
CallAtRest == call = CallIdle("real", TestCaseOf(1))
PlannerAtRest == planner = PlannerIdle(0, LlmRaises)
RankerAtRest == ranker = RankerIdle(<< >>, RankerModelRaises)
AssemblyAtRest == assembly = AssemblyIdle(<< >>)

\* ------------------------------------------------------------------
\* Two batches on the one ExecutorAgent / BrowserService: data
\* ------------------------------------------------------------------
\* the two execute_test_cases calls followed (those of two suite runs that
\* are in their executing phase together)
Batches == {1, 2}

\* Handles: the Playwright driver batch b starts and the browser batch b
\* launches from it both carry the number b; 0 is None.
NoHandle == 0

\* BrowserService.__init__, and no call made on it yet.
\*   pc[b]      position of batch b's execute_test_cases
\*   run[b][i]  position of run i of batch b
\*   uses[b][i] the browser whose context run i of batch b works in
\*   target[b]  the handle batch b's cleanup has called close()/stop() on
\*   playwright, browser   self.playwright, self.browser
\*   stopped, closed       the drivers stopped and the browsers closed
SharedIdle ==
    [pc |-> [b \in Batches |-> "idle"],
     run |-> [b \in Batches |-> << >>],
     uses |-> [b \in Batches |-> << >>],
     target |-> [b \in Batches |-> NoHandle],
     playwright |-> NoHandle,
     browser |-> NoHandle,
     stopped |-> {},
     closed |-> {}]

\* a browser is gone once it was closed or the driver it was launched from
\* was stopped
Gone(sh, h) == h \in sh.closed \/ h \in sh.stopped

SharedAtRest == shared = SharedIdle

CallsIdle ==
    /\ ResponseAtRest
    /\ CallAtRest
    /\ PlannerAtRest
    /\ RankerAtRest
    /\ AssemblyAtRest
    /\ SharedAtRest

\* ------------------------------------------------------------------
\* ExecutorAgent.execute_test_cases
\* ------------------------------------------------------------------
Runs == 1..Len(test_cases)

InProgress == { i \in Runs : runPc[i] \in {"new_context", "in_ctx", "simulating"} }

\* (variation of CanAcquire: the run enters without waiting for a free slot)
AcquireUnbounded(i) == \A j \in 1..(i - 1) : runPc[j] # "waiting"

\* `async with semaphore`: a free slot, and asyncio.Semaphore wakes its waiters
\* in FIFO order; gather starts the coroutines in list order.
CanAcquire(i) ==
    /\ semaphore > 0
    /\ \A j \in 1..(i - 1) : runPc[j] # "waiting"

\* (variation of StoreResult: a raising run cancels the runs that have not ended,
\* as a task group would)
StoreResultCancellingSiblings(i, out) ==
    /\ results' = [j \in DOMAIN results |->
                     IF j = i THEN out
                     ELSE IF out.kind = "exc" /\ runPc[j] # "done"
                          THEN Raised("CancelledError") ELSE results[j]]
    /\ runPc' = [j \in DOMAIN runPc |->
                   IF j = i \/ out.kind = "exc" THEN "done" ELSE runPc[j]]

\* asyncio.gather(*tasks, return_exceptions=True): the outcome of run i, a
\* record or an exception, is stored at position i; no other run is touched.
StoreResult(i, out) ==
    /\ results' = [results EXCEPT ![i] = out]
    /\ runPc' = [runPc EXCEPT ![i] = "done"]

\* The loop over enumerate(results): an exception becomes a synthesised record,
\* anything else is appended as it is.
RECURSIVE ProcessLoop(_, _, _, _)
ProcessLoop(tcs, res, i, acc) ==
    IF i > Len(res) THEN acc
    ELSE ProcessLoop(tcs, res, i + 1,
            Append(acc, IF res[i].kind = "exc"
                        THEN Record(tcs[i].id, "ERROR", "FAIL", << >>, res[i].msg)
                        ELSE res[i].rec))

\* (variation of Processed: the loop skips the exceptions instead of
\* synthesising a record for them)
RECURSIVE ProcessLoopDroppingFaults(_, _, _, _)
ProcessLoopDroppingFaults(tcs, res, i, acc) ==
    IF i > Len(res) THEN acc
    ELSE ProcessLoopDroppingFaults(tcs, res, i + 1,
            IF res[i].kind = "exc" THEN acc ELSE Append(acc, res[i].rec))

ProcessedDroppingFaults(tcs, res) == ProcessLoopDroppingFaults(tcs, res, 1, << >>)

Processed(tcs, res) == ProcessLoop(tcs, res, 1, << >>)

\* tasks = [run_single(tc) for tc in test_cases]; gather starts them all
FanOut ==
    /\ semaphore' = max_concurrent_tests
    /\ runPc' = [i \in Runs |-> "waiting"]
    /\ execPc' = "gather"

\* await self.initialize(), simulation: returns at once
InitializeSim ==
    /\ variant = "sim" /\ execPc = "start"
    /\ FanOut
    /\ UNCHANGED << nonExecVars, variant, test_cases, max_concurrent_tests, execError, results,
                    processed, ownOutcome, playwright, browser, open_contexts >>

\* BrowserService.initialize: self.playwright = await async_playwright().start()
StartPlaywright ==
    /\ variant = "real" /\ execPc = "start"
    /\ \/ /\ playwright' = "started"
          /\ execPc' = "launch"
          /\ UNCHANGED execError
       \/ /\ execPc' = "raised"
          /\ execError' = "playwright.start"
          /\ UNCHANGED playwright
    /\ UNCHANGED << nonExecVars, variant, test_cases, max_concurrent_tests, semaphore, runPc, results,
                    processed, ownOutcome, browser, open_contexts >>

\* BrowserService.initialize: self.browser = await chromium.launch(headless=True)
LaunchBrowser ==
    /\ variant = "real" /\ execPc = "launch"
    /\ \/ /\ browser' = "open"
          /\ FanOut
          /\ UNCHANGED execError
       \/ /\ execPc' = "raised"
          /\ execError' = "chromium.launch"
          /\ UNCHANGED << browser, semaphore, runPc >>
    /\ UNCHANGED << nonExecVars, variant, test_cases, max_concurrent_tests, results,
                    processed, ownOutcome, playwright, open_contexts >>

\* run_single: enter `async with semaphore` and call execute_test_case
RunAcquire(i) ==
    /\ execPc = "gather" /\ runPc[i] = "waiting"
    /\ CanAcquire(i)
    /\ semaphore' = semaphore - 1
    /\ runPc' = [runPc EXCEPT ![i] = IF variant = "real" THEN "new_context" ELSE "simulating"]
    /\ UNCHANGED << nonExecVars, variant, test_cases, max_concurrent_tests, execPc, execError, results,
                    processed, ownOutcome, playwright, browser, open_contexts >>

\* run i ends: the slot is released and gather takes the outcome
RunEnds(i, out, own) ==
    /\ semaphore' = semaphore + 1
    /\ StoreResult(i, out)
    /\ ownOutcome' = [ownOutcome EXCEPT ![i] = own]

\* execute_test_case: ctx = await self.browser.new_context()
RunNewContext(i) ==
    /\ execPc = "gather" /\ runPc[i] = "new_context"
    /\ \/ /\ open_contexts' = open_contexts \cup {i}
          /\ runPc' = [runPc EXCEPT ![i] = "in_ctx"]
          /\ UNCHANGED << semaphore, results, ownOutcome >>
       \/ /\ RunEnds(i, Raised("new_context"), "fault")
          /\ UNCHANGED open_contexts
    /\ UNCHANGED << nonExecVars, variant, test_cases, max_concurrent_tests, execPc, execError,
                    processed, playwright, browser >>

\* execute_test_case from ctx.new_page() to its return or raise
RunExecute(i) ==
    /\ execPc = "gather" /\ runPc[i] = "in_ctx"
    /\ \E p \in RealPlans(test_cases[i]) :
         LET e == ExecuteTestCase(test_cases[i], p)
         IN  /\ RunEnds(i, e.out, RealOwn(p))
             /\ open_contexts' = IF e.ctx = "closed" THEN open_contexts \ {i}
                                 ELSE open_contexts
    /\ UNCHANGED << nonExecVars, variant, test_cases, max_concurrent_tests, execPc, execError,
                    processed, playwright, browser >>

\* execute_test_case in simulation mode
RunSimulate(i) ==
    /\ execPc = "gather" /\ runPc[i] = "simulating"
    /\ \E p \in SimPlans :
         RunEnds(i, SimulateBrowserTest(test_cases[i], p),
                 SimOwn(p))
    /\ UNCHANGED << nonExecVars, variant, test_cases, max_concurrent_tests, execPc, execError,
                    processed, playwright, browser, open_contexts >>

\* (variation of GatherDone: gather returns as soon as one run has ended)
GatherFirstCompleted ==
    /\ execPc = "gather"
    /\ Runs # {} => \E i \in Runs : runPc[i] = "done"
    /\ processed' = Processed(test_cases, results)
    /\ execPc' = "cleanup"
    /\ UNCHANGED << nonExecVars, variant, test_cases, max_concurrent_tests, semaphore, execError, runPc,
                    results, ownOutcome, playwright, browser, open_contexts >>

\* gather returns once every run has ended; the result loop runs; cleanup starts
GatherDone ==
    /\ execPc = "gather"
    /\ \A i \in Runs : runPc[i] = "done"
    /\ processed' = Processed(test_cases, results)
    /\ execPc' = "cleanup"
    /\ UNCHANGED << nonExecVars, variant, test_cases, max_concurrent_tests, semaphore, execError, runPc,
                    results, ownOutcome, playwright, browser, open_contexts >>

\* BrowserService.cleanup, simulation: returns at once; return processed
CleanupSim ==
    /\ variant = "sim" /\ execPc = "cleanup"
    /\ execPc' = "returned"
    /\ UNCHANGED << nonExecVars, variant, test_cases, max_concurrent_tests, semaphore, execError, runPc,
                    results, processed, ownOutcome, playwright, browser, open_contexts >>

\* BrowserService.cleanup: self.contexts is empty (nothing ever adds to it);
\* await self.browser.close(), which closes every context of the browser
CloseBrowser ==
    /\ variant = "real" /\ execPc = "cleanup"
    /\ \/ /\ browser' = "closed"
          /\ open_contexts' = {}
          /\ execPc' = "stop"
          /\ UNCHANGED execError
       \/ /\ execPc' = "raised"
          /\ execError' = "browser.close"
          /\ UNCHANGED << browser, open_contexts >>
    /\ UNCHANGED << nonExecVars, variant, test_cases, max_concurrent_tests, semaphore, runPc,
                    results, processed, ownOutcome, playwright >>

\* BrowserService.cleanup: await self.playwright.stop(); return processed
StopPlaywright ==
    /\ variant = "real" /\ execPc = "stop"
    /\ \/ /\ playwright' = "stopped"
          /\ execPc' = "returned"
          /\ UNCHANGED execError
       \/ /\ execPc' = "raised"
          /\ execError' = "playwright.stop"
          /\ UNCHANGED playwright
    /\ UNCHANGED << nonExecVars, variant, test_cases, max_concurrent_tests, semaphore, runPc,
                    results, processed, ownOutcome, browser, open_contexts >>

InitExec ==
    /\ variant \in Variants
    /\ test_cases \in TestCaseLists
    /\ max_concurrent_tests \in 1..DefaultMaxConcurrentTests
    /\ semaphore = 0
    /\ execPc = "start"
    /\ execError = NoMessage
    /\ runPc = [i \in 1..Len(test_cases) |-> "created"]
    /\ results = [i \in 1..Len(test_cases) |-> Pending]
    /\ processed = << >>
    /\ ownOutcome = [i \in 1..Len(test_cases) |-> "pending"]
    /\ playwright = "none"
    /\ browser = "none"
    /\ open_contexts = {}
    /\ SuiteIdle
    /\ CallsIdle

NextExec ==
    \/ InitializeSim
    \/ StartPlaywright
    \/ LaunchBrowser
    \/ \E i \in Runs : RunAcquire(i)
    \/ \E i \in Runs : RunNewContext(i)
    \/ \E i \in Runs : RunExecute(i)
    \/ \E i \in Runs : RunSimulate(i)
    \/ GatherDone
    \/ CleanupSim
    \/ CloseBrowser
    \/ StopPlaywright

SpecExec == InitExec /\ [][NextExec]_vars

\* the event loop runs every coroutine that is ready: a batch that can take a
\* step eventually takes one
SpecExecFair == SpecExec /\ WF_vars(NextExec)


\* ------------------------------------------------------------------
\* app.main start_test / run_web_test_suite and
\* OrchestratorAgent.execute_test_suite
\* ------------------------------------------------------------------
\* f"web_{datetime.now().strftime('%Y%m%d_%H%M%S')}": the clock reading cut
\* to whole seconds
TaskIdAt(t) == t \div 2

\* the execute_top_n values requested (TestRequest declares a plain int):
\* none, some, all or more than all of the candidates, and a negative one
ExecuteCounts == (0 - 1)..MaxCandidates

\* faults execute_test_cases can raise: one from initialize, one from cleanup
ExecutorFaults == {"chromium.launch", "browser.close"}

\* Result records the executor can hand back for a test case: that of a
\* passing run and that of a run that faulted while loading the page.
ResultChoices(id) ==
    LET tc == TestCaseOf(id)
        plan(op) == [fault |-> [op |-> op, at |-> 0], errShot |-> FALSE,
                     pageClose |-> FALSE, ctxClose |-> FALSE]
    IN  { ExecuteTestCase(tc, plan("none")).out.rec,
          ExecuteTestCase(tc, plan("goto")).out.rec }

\* what execute_test_cases returns for `selected` (ids): one record per test
\* case, in order
ExecutorReturnValues(selected) ==
    { er \in [1..Len(selected) -> UNION { ResultChoices(id) : id \in 1..MaxCandidates }] :
        \A i \in 1..Len(selected) : er[i] \in ResultChoices(selected[i]) }

\* the orders the ranker can return the candidates in: as given, or reversed
RankedOrders(seq) ==
    { seq, [i \in 1..Len(seq) |-> seq[Len(seq) + 1 - i]] }

Status(r) == [tasks |-> active_tasks, log |-> published[r]]

Tick ==
    /\ now < MaxClock
    /\ now' = now + 1
    /\ UNCHANGED << nonSuiteVars, suitePc, task_id, execute_count, candidate_tests,
                    ranked_tests, published, active_tasks, reports_storage >>

\* POST /api/test/start: make the task id and schedule run_web_test_suite
StartTest(r) ==
    /\ suitePc[r] = "idle"
    /\ \A q \in SuiteRuns : q < r => suitePc[q] # "idle"
    /\ \E ec \in ExecuteCounts : execute_count' = [execute_count EXCEPT ![r] = ec]
    /\ task_id' = [task_id EXCEPT ![r] = TaskIdAt(now)]
    /\ suitePc' = [suitePc EXCEPT ![r] = "scheduled"]
    /\ UNCHANGED << nonSuiteVars, now, candidate_tests, ranked_tests, published,
                    active_tasks, reports_storage >>

\* run_web_test_suite starts; execute_test_suite publishes "planning" and
\* awaits the planner
SuiteBegin(r) ==
    /\ suitePc[r] = "scheduled"
    /\ LET st == UpdateTaskStatus(Status(r), task_id[r], "planning",
                                  Message("Generating test case candidates", 0), now)
       IN  /\ active_tasks' = st.tasks
           /\ published' = [published EXCEPT ![r] = st.log]
    /\ suitePc' = [suitePc EXCEPT ![r] = "planning"]
    /\ UNCHANGED << nonSuiteVars, now, task_id, execute_count, candidate_tests,
                    ranked_tests, reports_storage >>

\* (variation of PlannerReturns: the "ranking" status is not published)
PlannerReturnsUnpublished(r) ==
    /\ suitePc[r] = "planning"
    /\ \E n \in 0..MaxCandidates :
         candidate_tests' = [candidate_tests EXCEPT ![r] = [i \in 1..n |-> i]]
    /\ suitePc' = [suitePc EXCEPT ![r] = "ranking"]
    /\ UNCHANGED << nonSuiteVars, now, task_id, execute_count, ranked_tests,
                    reports_storage, active_tasks, published >>

\* generate_test_cases returns; "ranking" is published; the ranker is awaited
PlannerReturns(r) ==
    /\ suitePc[r] = "planning"
    /\ \E n \in 0..MaxCandidates :
         candidate_tests' = [candidate_tests EXCEPT ![r] = [i \in 1..n |-> i]]
    /\ LET st == UpdateTaskStatus(Status(r), task_id[r], "ranking",
                                  Message("Ranking test cases by priority", 0), now)
       IN  /\ active_tasks' = st.tasks
           /\ published' = [published EXCEPT ![r] = st.log]
    /\ suitePc' = [suitePc EXCEPT ![r] = "ranking"]
    /\ UNCHANGED << nonSuiteVars, now, task_id, execute_count, ranked_tests,
                    reports_storage >>

\* rank_test_cases returns; "executing" is published (the suite's side)
RankerPublishes(r) ==
    /\ suitePc[r] = "ranking"
    /\ \E rk \in RankedOrders(candidate_tests[r]) :
         ranked_tests' = [ranked_tests EXCEPT ![r] = rk]
    /\ LET st == UpdateTaskStatus(Status(r), task_id[r], "executing",
                                  Message("Executing top test cases", execute_count[r]), now)
       IN  /\ active_tasks' = st.tasks
           /\ published' = [published EXCEPT ![r] = st.log]
    /\ suitePc' = [suitePc EXCEPT ![r] = "executing"]
    /\ UNCHANGED << now, task_id, execute_count, candidate_tests, reports_storage >>

\* rank_test_cases returns; "executing" is published; the executor is awaited
RankerReturns(r) ==
    /\ RankerPublishes(r)
    /\ UNCHANGED nonSuiteVars

\* (variation of SuiteCompletes: "completed" is published and the report is
\* not yet in reports_storage, as when the store were made after another
\* await)
SuiteCompletesBeforeStoring(r, er) ==
    /\ suitePc[r] = "executing"
    /\ LET st1 == UpdateTaskStatus(Status(r), task_id[r], "reporting",
                      Message("Generating comprehensive test report", 0), now)
           st2 == UpdateTaskStatus(st1, task_id[r], "completed",
                      Message("Test execution completed successfully", 0), now)
       IN  /\ active_tasks' = st2.tasks
           /\ published' = [published EXCEPT ![r] = st2.log]
    /\ suitePc' = [suitePc EXCEPT ![r] = "completed"]
    /\ candidate_tests' = [candidate_tests EXCEPT ![r] = << >>]
    /\ ranked_tests' = [ranked_tests EXCEPT ![r] = << >>]
    /\ execute_count' = [execute_count EXCEPT ![r] = 0]
    /\ UNCHANGED << now, task_id, reports_storage >>

\* execute_test_suite from the return of execute_test_cases with er on:
\* "reporting", the report, "completed", return; run_web_test_suite stores
\* report.dict().  No await in between.
SuiteCompletes(r, er) ==
    /\ suitePc[r] = "executing"
    /\ LET st1 == UpdateTaskStatus(Status(r), task_id[r], "reporting",
                      Message("Generating comprehensive test report", 0), now)
           test_report == TestReport(task_id[r], candidate_tests[r], er)
           st2 == UpdateTaskStatus(st1, task_id[r], "completed",
                      Message("Test execution completed successfully", 0), now)
       IN  /\ active_tasks' = st2.tasks
           /\ published' = [published EXCEPT ![r] = st2.log]
           /\ reports_storage' = DictSet(reports_storage, task_id[r], test_report)
    /\ suitePc' = [suitePc EXCEPT ![r] = "completed"]
    /\ candidate_tests' = [candidate_tests EXCEPT ![r] = << >>]
    /\ ranked_tests' = [ranked_tests EXCEPT ![r] = << >>]
    /\ execute_count' = [execute_count EXCEPT ![r] = 0]
    /\ UNCHANGED << now, task_id >>

\* execute_test_cases returns (any return value it can give)
ExecutorReturns(r) ==
    /\ \E er \in ExecutorReturnValues(SlicePrefix(ranked_tests[r], execute_count[r])) :
         SuiteCompletes(r, er)
    /\ UNCHANGED nonSuiteVars

\* (variation of ExecutorRaises: the except branch re-raises without
\* publishing "failed")
ExecutorRaisesUnpublished(r) ==
    /\ suitePc[r] = "executing"
    /\ \E e \in ExecutorFaults :
         reports_storage' = DictSet(reports_storage, task_id[r], FailureEntry(task_id[r], e))
    /\ suitePc' = [suitePc EXCEPT ![r] = "failed"]
    /\ candidate_tests' = [candidate_tests EXCEPT ![r] = << >>]
    /\ ranked_tests' = [ranked_tests EXCEPT ![r] = << >>]
    /\ execute_count' = [execute_count EXCEPT ![r] = 0]
    /\ UNCHANGED << nonSuiteVars, now, task_id, active_tasks, published >>

\* execute_test_suite when execute_test_cases raises e: the except branch
\* publishes "failed" with str(e) and re-raises; run_web_test_suite stores the
\* error report
SuiteFails(r, e) ==
    /\ suitePc[r] = "executing"
    /\ LET st == UpdateTaskStatus(Status(r), task_id[r], "failed", Message(e, 0), now)
       IN  /\ active_tasks' = st.tasks
           /\ published' = [published EXCEPT ![r] = st.log]
           /\ reports_storage' = DictSet(reports_storage, task_id[r],
                                         FailureEntry(task_id[r], e))
    /\ suitePc' = [suitePc EXCEPT ![r] = "failed"]
    /\ candidate_tests' = [candidate_tests EXCEPT ![r] = << >>]
    /\ ranked_tests' = [ranked_tests EXCEPT ![r] = << >>]
    /\ execute_count' = [execute_count EXCEPT ![r] = 0]
    /\ UNCHANGED << now, task_id >>

\* execute_test_cases raises
ExecutorRaises(r) ==
    /\ \E e \in ExecutorFaults : SuiteFails(r, e)
    /\ UNCHANGED nonSuiteVars

\* the executor layer at rest (no batch is followed in SpecSuite)
ExecIdle ==
    /\ variant = "real"
    /\ test_cases = << >>
    /\ max_concurrent_tests = DefaultMaxConcurrentTests
    /\ semaphore = 0
    /\ execPc = "start"
    /\ execError = NoMessage
    /\ runPc = << >>
    /\ results = << >>
    /\ processed = << >>
    /\ ownOutcome = << >>
    /\ playwright = "none"
    /\ browser = "none"
    /\ open_contexts = {}

InitSuite == ExecIdle /\ SuiteIdle /\ CallsIdle

NextSuite ==
    \/ Tick
    \/ \E r \in SuiteRuns : StartTest(r)
    \/ \E r \in SuiteRuns : SuiteBegin(r)
    \/ \E r \in SuiteRuns : PlannerReturns(r)
    \/ \E r \in SuiteRuns : RankerReturns(r)
    \/ \E r \in SuiteRuns : ExecutorReturns(r)
    \/ \E r \in SuiteRuns : ExecutorRaises(r)

SpecSuite == InitSuite /\ [][NextSuite]_vars

\* ------------------------------------------------------------------
\* app.main get_test_status / get_test_report, with one suite run
\* ------------------------------------------------------------------
\* an identifier no start_test call hands out
UnknownTaskId == TaskIdAt(MaxClock) + 1

\* the identifiers a client asks about
QueryIds == { TaskIdAt(t) : t \in 0..MaxClock } \cup {UnknownTaskId}

\* the body of get_test_report: the stored entry, or the 404
ReportQuery(storage, tid) ==
    IF tid \in DOMAIN storage THEN storage[tid] ELSE ReportNotFound

\* the body of get_test_status: the orchestrator's observation, or the
\* not_found answer when there is none
StatusQuery(tasks, tid) ==
    LET status == GetTaskStatus(tasks, tid)
    IN  IF status = NotFound THEN StatusNotFound(tid) ELSE status

\* (variation of GetTestStatus: the lookup leaves an entry behind for an
\* identifier it does not find, as a setdefault would)
GetTestStatusInserting(tid) ==
    /\ response' = [kind |-> "status", tid |-> tid,
                    body |-> StatusQuery(active_tasks, tid)]
    /\ active_tasks' = IF tid \in DOMAIN active_tasks THEN active_tasks
                       ELSE DictSet(active_tasks, tid, NotFound)
    /\ UNCHANGED << execVars, now, suitePc, task_id, execute_count, candidate_tests,
                    ranked_tests, published, reports_storage, exceptResponse >>

\* GET /api/test/status/{task_id}
GetTestStatus(tid) ==
    /\ response' = [kind |-> "status", tid |-> tid,
                    body |-> StatusQuery(active_tasks, tid)]
    /\ UNCHANGED << execVars, suiteVars, exceptResponse >>

\* GET /api/test/report/{task_id}
GetTestReport(tid) ==
    /\ response' = [kind |-> "report", tid |-> tid,
                    body |-> ReportQuery(reports_storage, tid)]
    /\ UNCHANGED << execVars, suiteVars, exceptResponse >>

\* one suite run, and the queries a client makes while it runs
NextApi ==
    \/ Tick
    \/ StartTest(1)
    \/ SuiteBegin(1)
    \/ PlannerReturns(1)
    \/ RankerReturns(1)
    \/ ExecutorReturns(1)
    \/ ExecutorRaises(1)
    \/ \E tid \in QueryIds : GetTestStatus(tid)
    \/ \E tid \in QueryIds : GetTestReport(tid)

SpecApi == InitSuite /\ [][NextApi]_vars

\* ------------------------------------------------------------------
\* One BrowserService.execute_test_case call
\* ------------------------------------------------------------------
\* ctx = await self.browser.new_context(): the context opens, or the call
\* raises at once
CallNewContext ==
    /\ call.pc = "idle" /\ call.variant = "real"
    /\ \/ call' = [call EXCEPT !.pc = "in_ctx", !.ctx = "open"]
       \/ call' = [call EXCEPT !.pc = "ended", !.out = Raised("new_context")]
    /\ UNCHANGED << execVars, suiteVars, exceptCall >>

\* from ctx.new_page() to the return or raise
CallExecute ==
    /\ call.pc = "in_ctx"
    /\ \E p \in RealPlans(call.tc) :
         LET e == ExecuteTestCase(call.tc, p)
         IN  call' = [call EXCEPT !.pc = "ended", !.plan = p, !.out = e.out,
                                  !.ctx = e.ctx, !.events = Events(call.tc, p)]
    /\ UNCHANGED << execVars, suiteVars, exceptCall >>

\* the simulation's execute_test_case
CallSimulate ==
    /\ call.pc = "idle" /\ call.variant = "sim"
    /\ \E p \in SimPlans :
         call' = [call EXCEPT !.pc = "ended",
                              !.plan = [NoPlan EXCEPT !.fault.op =
                                           IF p.start = "raise" THEN "start"
                                           ELSE IF p.end = "raise" THEN "end"
                                           ELSE IF p.success THEN "none" ELSE "failed"],
                              !.out = SimulateBrowserTest(call.tc, p),
                              !.events = SimEvents(call.tc, p)]
    /\ UNCHANGED << execVars, suiteVars, exceptCall >>

InitCall ==
    /\ ExecIdle /\ SuiteIdle
    /\ ResponseAtRest /\ PlannerAtRest /\ RankerAtRest /\ AssemblyAtRest /\ SharedAtRest
    /\ call \in { CallIdle(v, TestCaseOf(id)) : v \in Variants, id \in 1..MaxTests }

NextCall == CallNewContext \/ CallExecute \/ CallSimulate

SpecCall == InitCall /\ [][NextCall]_vars

\* ------------------------------------------------------------------
\* One PlannerAgent.generate_test_cases call
\* ------------------------------------------------------------------
\* the model answered: return self._parse_response_to_test_cases(content)
PlannerParses ==
    /\ planner.pc = "idle" /\ planner.reply # LlmRaises
    /\ planner' = [planner EXCEPT !.pc = "returned",
                                  !.out = ParseResponseToTestCases(planner.reply)]
    /\ UNCHANGED << execVars, suiteVars, exceptPlanner >>

\* the model call raised: return self._get_fallback_test_cases(count)
PlannerFallsBack ==
    /\ planner.pc = "idle" /\ planner.reply = LlmRaises
    /\ planner' = [planner EXCEPT !.pc = "returned",
                                  !.out = GetFallbackTestCases(planner.count)]
    /\ UNCHANGED << execVars, suiteVars, exceptPlanner >>

InitPlanner ==
    /\ ExecIdle /\ SuiteIdle
    /\ ResponseAtRest /\ CallAtRest /\ RankerAtRest /\ AssemblyAtRest /\ SharedAtRest
    /\ planner \in { PlannerIdle(count, reply) : count \in Counts, reply \in Replies }

NextPlanner == PlannerParses \/ PlannerFallsBack

SpecPlanner == InitPlanner /\ [][NextPlanner]_vars

\* ------------------------------------------------------------------
\* One RankerAgent.rank_test_cases call
\* ------------------------------------------------------------------
\* the model answered: _apply_rankings, then sorted by rank score
RankerScores ==
    /\ ranker.pc = "idle" /\ ~ranker.reply.raises
    /\ \E out \in SortedByRankScore(ApplyRankings(ranker.test_cases, ranker.reply.lines)) :
         ranker' = [ranker EXCEPT !.pc = "returned", !.out = out]
    /\ UNCHANGED << execVars, suiteVars, exceptRanker >>

\* the try block raised: return self._fallback_ranking(test_cases)
RankerFallsBack ==
    /\ ranker.pc = "idle" /\ ranker.reply.raises
    /\ ranker' = [ranker EXCEPT !.pc = "returned",
                                !.out = FallbackRanking(ranker.test_cases)]
    /\ UNCHANGED << execVars, suiteVars, exceptRanker >>

InitRanker ==
    /\ ExecIdle /\ SuiteIdle
    /\ ResponseAtRest /\ CallAtRest /\ PlannerAtRest /\ AssemblyAtRest /\ SharedAtRest
    /\ ranker \in { RankerIdle(tcs, reply) : tcs \in RankerInputs, reply \in RankerReplies }

NextRanker == RankerScores \/ RankerFallsBack

SpecRanker == InitRanker /\ [][NextRanker]_vars

\* ------------------------------------------------------------------
\* The report assembled twice over one result sequence
\* ------------------------------------------------------------------
\* what gather can hold for a run of tc once the run has ended
OutcomesOf(tc) == { ExecuteTestCase(tc, p).out : p \in RealPlans(tc) }

\* what gather can return for the runs of tcs
RECURSIVE GatherOutcomes(_)
GatherOutcomes(tcs) ==
    IF tcs = << >> THEN { << >> }
    ELSE { << o >> \o rest : o \in OutcomesOf(Head(tcs)), rest \in GatherOutcomes(Tail(tcs)) }

\* the result sequences execute_test_cases can hand to the report assembly
\* for one of the lists: per test case what its run returned, or the record
\* synthesised for a run that raised
ResultSequences(lists) ==
    UNION { { Processed(tcs, res) : res \in GatherOutcomes(tcs) } : tcs \in lists }

Assembled(a) == [success_rate |-> a.success_rate, artifacts |-> a.artifacts]

AssembleFirst ==
    /\ assembly.pc = "idle"
    /\ LET a == AssembleReport(assembly.execution_results)
       IN  assembly' = [assembly EXCEPT !.pc = "once", !.first = Assembled(a),
                                        !.execution_results = a.execution_results]
    /\ UNCHANGED << execVars, suiteVars, exceptAssembly >>

AssembleSecond ==
    /\ assembly.pc = "once"
    /\ LET a == AssembleReport(assembly.execution_results)
       IN  assembly' = [assembly EXCEPT !.pc = "twice", !.second = Assembled(a),
                                        !.execution_results = a.execution_results]
    /\ UNCHANGED << execVars, suiteVars, exceptAssembly >>

InitReport ==
    /\ ExecIdle /\ SuiteIdle
    /\ ResponseAtRest /\ CallAtRest /\ PlannerAtRest /\ RankerAtRest /\ SharedAtRest
    /\ assembly \in { AssemblyIdle(er) : er \in ResultSequences(TestCaseLists) }

NextReport == AssembleFirst \/ AssembleSecond

SpecReport == InitReport /\ [][NextReport]_vars

\* ------------------------------------------------------------------
\* One suite run followed through its executor batch
\* ------------------------------------------------------------------
\* the executor of the orchestrator before execute_test_cases is called
ExecutorNotCalled ==
    /\ variant \in Variants
    /\ test_cases = << >>
    /\ max_concurrent_tests = DefaultMaxConcurrentTests
    /\ semaphore = 0
    /\ execPc = "idle"
    /\ execError = NoMessage
    /\ runPc = << >>
    /\ results = << >>
    /\ processed = << >>
    /\ ownOutcome = << >>
    /\ playwright = "none"
    /\ browser = "none"
    /\ open_contexts = {}

\* rank_test_cases returns, "executing" is published and
\* execute_test_cases(selected_tests, ...) is entered
RankerReturnsExecutorCalled ==
    /\ RankerPublishes(1)
    /\ execPc = "idle"
    /\ LET selected_tests == SlicePrefix(ranked_tests'[1], execute_count[1])
       IN  /\ test_cases' = [i \in 1..Len(selected_tests) |-> TestCaseOf(selected_tests[i])]
           /\ runPc' = [i \in 1..Len(selected_tests) |-> "created"]
           /\ results' = [i \in 1..Len(selected_tests) |-> Pending]
           /\ ownOutcome' = [i \in 1..Len(selected_tests) |-> "pending"]
    /\ execPc' = "start"
    /\ UNCHANGED << callVars, variant, max_concurrent_tests, semaphore, execError,
                    processed, playwright, browser, open_contexts >>

\* execute_test_cases returns processed to execute_test_suite
BatchReturns ==
    /\ execPc = "returned"
    /\ SuiteCompletes(1, processed)
    /\ UNCHANGED nonSuiteVars

\* execute_test_cases raises into execute_test_suite
BatchRaises ==
    /\ execPc = "raised"
    /\ SuiteFails(1, execError)
    /\ UNCHANGED nonSuiteVars

InitPipeline == ExecutorNotCalled /\ SuiteIdle /\ CallsIdle

NextPipeline ==
    \/ StartTest(1)
    \/ SuiteBegin(1)
    \/ PlannerReturns(1)
    \/ RankerReturnsExecutorCalled
    \/ InitializeSim
    \/ StartPlaywright
    \/ LaunchBrowser
    \/ \E i \in Runs : RunAcquire(i)
    \/ \E i \in Runs : RunNewContext(i)
    \/ \E i \in Runs : RunExecute(i)
    \/ \E i \in Runs : RunSimulate(i)
    \/ GatherDone
    \/ CleanupSim
    \/ CloseBrowser
    \/ StopPlaywright
    \/ BatchReturns
    \/ BatchRaises

SpecPipeline == InitPipeline /\ [][NextPipeline]_vars

\* ------------------------------------------------------------------
\* Two execute_test_cases calls on the one ExecutorAgent / BrowserService
\* (Playwright variant; no call of the environment faults of its own accord)
\* ------------------------------------------------------------------
SharedStep(sh) ==
    /\ shared' = sh
    /\ UNCHANGED << execVars, suiteVars, exceptShared >>

\* execute_test_cases(test_cases, ...) is entered with n test cases:
\* await self.initialize() suspends in async_playwright().start()
SharedCalled(b) ==
    /\ shared.pc[b] = "idle"
    /\ \E n \in 1..MaxCandidates :
         SharedStep([shared EXCEPT !.pc[b] = "start",
                                   !.run[b] = [i \in 1..n |-> "created"],
                                   !.uses[b] = [i \in 1..n |-> NoHandle]])

\* self.playwright = await async_playwright().start(); chromium.launch is
\* called on it
SharedStartPlaywright(b) ==
    /\ shared.pc[b] = "start"
    /\ SharedStep([shared EXCEPT !.pc[b] = "launch", !.playwright = b])

\* self.browser = await self.playwright.chromium.launch(headless=True), or
\* the launch raises because the driver was stopped meanwhile; then the
\* semaphore is made and gather starts the runs
SharedLaunchBrowser(b) ==
    /\ shared.pc[b] = "launch"
    /\ IF b \in shared.stopped
       THEN SharedStep([shared EXCEPT !.pc[b] = "raised"])
       ELSE SharedStep([shared EXCEPT !.pc[b] = "gather", !.browser = b,
                                      !.run[b] = [i \in DOMAIN shared.run[b] |-> "waiting"]])

\* run_single: the slot is free (at most MaxCandidates runs for
\* max_concurrent_tests slots); ctx = await self.browser.new_context() on
\* whatever self.browser is now
SharedRunNewContext(b, i) ==
    /\ shared.pc[b] = "gather"
    /\ i \in DOMAIN shared.run[b] /\ shared.run[b][i] = "waiting"
    /\ IF Gone(shared, shared.browser)
       THEN SharedStep([shared EXCEPT !.run[b][i] = "raised"])
       ELSE SharedStep([shared EXCEPT !.run[b][i] = "in_ctx",
                                      !.uses[b][i] = shared.browser])

\* execute_test_case ends: it returns its record, or raises when its browser
\* is gone
SharedRunEnds(b, i) ==
    /\ shared.pc[b] = "gather"
    /\ i \in DOMAIN shared.run[b] /\ shared.run[b][i] = "in_ctx"
    /\ SharedStep([shared EXCEPT !.run[b][i] =
                       IF Gone(shared, shared.uses[b][i]) THEN "raised" ELSE "returned"])

\* gather returns, the result loop runs, cleanup() is entered: self.contexts
\* is empty, self.browser.close() is called on whatever self.browser is now
SharedGatherDone(b) ==
    /\ shared.pc[b] = "gather"
    /\ \A i \in DOMAIN shared.run[b] : shared.run[b][i] \in {"returned", "raised"}
    /\ SharedStep([shared EXCEPT !.pc[b] = "cleanup", !.target[b] = shared.browser])

\* await self.browser.close() returns; self.playwright.stop() is called on
\* whatever self.playwright is now
SharedCloseBrowser(b) ==
    /\ shared.pc[b] = "cleanup"
    /\ SharedStep([shared EXCEPT !.pc[b] = "stop",
                                 !.closed = @ \cup {shared.target[b]},
                                 !.target[b] = shared.playwright])

\* await self.playwright.stop() returns; return processed
SharedStopPlaywright(b) ==
    /\ shared.pc[b] = "stop"
    /\ SharedStep([shared EXCEPT !.pc[b] = "returned",
                                 !.stopped = @ \cup {shared.target[b]}])

InitShared ==
    /\ ExecIdle /\ SuiteIdle
    /\ ResponseAtRest /\ CallAtRest /\ PlannerAtRest /\ RankerAtRest /\ AssemblyAtRest
    /\ SharedAtRest

NextShared ==
    \E b \in Batches :
        \/ SharedCalled(b)
        \/ SharedStartPlaywright(b)
        \/ SharedLaunchBrowser(b)
        \/ \E i \in 1..MaxCandidates : SharedRunNewContext(b, i)
        \/ \E i \in 1..MaxCandidates : SharedRunEnds(b, i)
        \/ SharedGatherDone(b)
        \/ SharedCloseBrowser(b)
        \/ SharedStopPlaywright(b)

SpecShared == InitShared /\ [][NextShared]_vars

\* ------------------------------------------------------------------
\* Properties of one batch (SpecExec)
\* ------------------------------------------------------------------
\* the result loop has run: processed is the list the batch returns
ListBuilt == execPc \in {"cleanup", "stop", "returned"}

BatchEnded == execPc \in {"returned", "raised"}

\* C1: the list execute_test_cases builds and returns has exactly
\* len(test_cases) entries and the entry at position i carries the id of
\* test_cases[i], whichever runs returned, raised or timed out and in whatever
\* order they ended.
ResultsMatchInput ==
    ListBuilt =>
        /\ Len(processed) = Len(test_cases)
        /\ \A i \in 1..Len(test_cases) : processed[i].test_case_id = test_cases[i].id

\* a full batch returned with a raised run, a run whose step timed out or
\* raised, and ids that differ from their positions
ResultsMatchInputWitness ==
    /\ execPc = "returned"
    /\ Len(test_cases) = MaxTests
    /\ test_cases[1].id # 1
    /\ \E i, j \in Runs : results[i].kind = "exc" /\ ownOutcome[j] = "step"

\* C2: at most max_concurrent_tests invocations of execute_test_case are in
\* progress at any time of a batch.
BoundedConcurrency == Cardinality(InProgress) <= max_concurrent_tests

\* all slots taken, a run waiting behind them, and a run that already raised
BoundedConcurrencyWitness ==
    /\ Cardinality(InProgress) = max_concurrent_tests
    /\ \E i \in Runs : runPc[i] = "waiting"
    /\ \E i \in Runs : results[i].kind = "exc"

\* C3: a run whose execute_test_case raised gets, at its position of the
\* returned list, a record with verdict ERROR and a populated error message.
EscapedFaultGetsErrorVerdict ==
    ListBuilt =>
        \A i \in 1..Len(test_cases) :
            results[i].kind = "exc" =>
                /\ i <= Len(processed)
                /\ processed[i].test_case_id = test_cases[i].id
                /\ processed[i].verdict = "ERROR"
                /\ processed[i].error_message # NoMessage

\* C4: execute_test_case never propagates a fault to its caller: gather never
\* collects an exception for a run.
RunnerNeverPropagates == \A i \in Runs : results[i].kind # "exc"

\* C5: a run whose step raised or timed out returns verdict ERROR with an error
\* message; verdict FAIL is returned only for a validation-level failure; an
\* error message is present only when the verdict is not PASS.
StepFaultGivesError ==
    \A i \in Runs :
        results[i].kind = "ok" =>
            /\ ownOutcome[i] = "step" =>
                   /\ results[i].rec.verdict = "ERROR"
                   /\ results[i].rec.error_message # NoMessage
            /\ results[i].rec.verdict = "FAIL" => ownOutcome[i] = "failed"
            /\ results[i].rec.error_message # NoMessage => results[i].rec.verdict # "PASS"

\* C6: a fault or timeout of one run neither cancels another run nor changes
\* its result: a run ends only by its own execution, the batch does not end
\* while a run is waiting or in progress, and in the returned list a run that
\* met no fault of its own has verdict PASS and the others do not.
RunsAreIsolated ==
    /\ \A j \in Runs : runPc[j] = "done" => ownOutcome[j] # "pending"
    /\ BatchEnded => \A j \in Runs : runPc[j] \in {"created", "done"}
    /\ ListBuilt =>
           \A j \in Runs :
               /\ runPc[j] = "done"
               /\ processed[j].test_case_id = test_cases[j].id
               /\ ownOutcome[j] = "clean" <=> processed[j].verdict = "PASS"

\* a batch returned in which one run raised, one run's second step faulted
\* and a third run passed
RunsAreIsolatedWitness ==
    /\ execPc = "returned"
    /\ \E i, j, k \in Runs :
        /\ results[i].kind = "exc"
        /\ ownOutcome[j] = "step" /\ Len(processed[j].artifacts) = 3
        /\ ownOutcome[k] = "clean" /\ processed[k].verdict = "PASS"

\* C10: the shared browser is acquired before any run is dispatched and is
\* released on every way the batch can end.
BrowserReleasedOnEveryEnd ==
    /\ variant = "real" /\ InProgress # {} => browser = "open" /\ playwright = "started"
    /\ BatchEnded => browser # "open" /\ playwright # "started"

\* C11: every browser context execute_test_case opened for a run is closed
\* by the time the call ends, whichever way it ends, so that a run that has
\* ended holds no open context (and none is left after the batch).
ContextsClosedOnEveryExit ==
    /\ \A i \in Runs : runPc[i] = "done" => i \notin open_contexts
    /\ BatchEnded => open_contexts = {}


\* ------------------------------------------------------------------
\* Properties of suite runs (SpecSuite)
\* ------------------------------------------------------------------
PhaseSequence == << "planning", "ranking", "executing", "reporting", "completed" >>

PhaseRank(status) ==
    CASE status = "planning" -> 1
      [] status = "ranking" -> 2
      [] status = "executing" -> 3
      [] status = "reporting" -> 4
      [] status = "completed" -> 5
      [] status = "failed" -> 6
      [] OTHER -> 0

IsPrefix(a, b) == Len(a) <= Len(b) /\ a = SubSeq(b, 1, Len(a))

\* C7: a suite run in which no fault escapes publishes exactly planning,
\* ranking, executing, reporting, completed, each once and in that order (and
\* while it runs, what it has published is a prefix of that sequence).
PhaseSequenceExact ==
    \A r \in SuiteRuns :
        /\ suitePc[r] = "completed" => published[r] = PhaseSequence
        /\ suitePc[r] # "failed" => IsPrefix(published[r], PhaseSequence)

\* both suite runs completed, with the same task id
PhaseSequenceExactWitness ==
    /\ \A r \in SuiteRuns : suitePc[r] = "completed"
    /\ task_id[1] = task_id[2]

\* C8: the phase held in the status observation of a task id never moves back
\* to an earlier phase, and never changes once it is completed or failed.
StatusNeverMovesBack ==
    [][ \A tid \in DOMAIN active_tasks :
            /\ PhaseRank(active_tasks'[tid].status) >= PhaseRank(active_tasks[tid].status)
            /\ active_tasks[tid].status \in {"completed", "failed"}
                   => active_tasks'[tid].status = active_tasks[tid].status ]_vars

\* C9: when a fault escapes execute_test_suite, the last observation the run
\* publishes is "failed" with the fault's text, the run assembles no
\* TestReport (it never publishes reporting or completed), and what it stores
\* under its task id is the failure entry with the same text, not a TestReport.
FailedRunPublishesFault ==
    /\ [] (\A r \in SuiteRuns :
              suitePc[r] = "failed" =>
                  /\ published[r] # << >>
                  /\ published[r][Len(published[r])] = "failed"
                  /\ \A k \in 1..Len(published[r]) :
                         published[r][k] \notin {"reporting", "completed"})
    /\ [][ \A r \in SuiteRuns :
               suitePc[r] # "failed" /\ suitePc'[r] = "failed" =>
                   /\ task_id[r] \in DOMAIN active_tasks'
                   /\ task_id[r] \in DOMAIN reports_storage'
                   /\ active_tasks'[task_id[r]].status = "failed"
                   /\ active_tasks'[task_id[r]].message.text \in ExecutorFaults
                   /\ active_tasks'[task_id[r]].updated_at = now
                   /\ ~IsTestReport(reports_storage'[task_id[r]])
                   /\ reports_storage'[task_id[r]] =
                          FailureEntry(task_id[r], active_tasks'[task_id[r]].message.text) ]_vars

\* a run failed while the other run, with another task id, completed
FailedRunPublishesFaultWitness ==
    /\ suitePc[1] = "failed" /\ suitePc[2] = "completed"
    /\ task_id[1] # task_id[2]
    /\ active_tasks[task_id[1]].status = "failed"
    /\ ~IsTestReport(reports_storage[task_id[1]])
    /\ IsTestReport(reports_storage[task_id[2]])

\* C15: a report query returns not-found for an identifier no run has and for
\* the identifier of a run that has not yet completed or failed; an entry it
\* returns for a completed run is that run's whole report.
ReportOnlyOfFinishedRun ==
    /\ \A tid \in QueryIds :
           (\A r \in SuiteRuns : task_id[r] # tid)
               => ReportQuery(reports_storage, tid) = ReportNotFound
    /\ \A r \in SuiteRuns :
           suitePc[r] \in {"scheduled", "planning", "ranking", "executing"}
               => ReportQuery(reports_storage, task_id[r]) = ReportNotFound
    /\ \A r \in SuiteRuns :
           suitePc[r] = "completed" /\ IsTestReport(ReportQuery(reports_storage, task_id[r]))
               => LET report == ReportQuery(reports_storage, task_id[r])
                  IN  report.executed_tests = Len(report.execution_results)

\* ------------------------------------------------------------------
\* Properties of one suite run and its queries (SpecApi)
\* ------------------------------------------------------------------
Min(a, b) == IF a < b THEN a ELSE b

Last(seq) == seq[Len(seq)]

\* the ids of the test cases whose results the stored report of run r lists
ExecutedIds(storage, r) ==
    LET er == storage[task_id[r]].execution_results
    IN  [i \in 1..Len(er) |-> er[i].test_case_id]

\* the executor returns to run r in this step
Completes(r) == suitePc[r] = "executing" /\ suitePc'[r] = "completed"

\* C12 (as stated): the test cases executed are exactly the first
\* min(execute_count, number of candidates) elements of the ranker's output,
\* in ranked order, for every execute_count.
SelectionIsFirstMin ==
    [][ \A r \in SuiteRuns :
            Completes(r) =>
                ExecutedIds(reports_storage', r) =
                    SubSeq(ranked_tests[r], 1,
                           Min(execute_count[r], Len(ranked_tests[r]))) ]_vars

\* C12 (amended): for execute_count >= 0, the test cases executed are exactly
\* the first min(execute_count, number of candidates) elements of the ranker's
\* output, in ranked order; when execute_count exceeds the number of
\* candidates, all candidates and no more are executed.
SelectionIsRankedPrefix ==
    [][ \A r \in SuiteRuns :
            Completes(r) /\ execute_count[r] >= 0 =>
                LET k == Min(execute_count[r], Len(ranked_tests[r]))
                    ids == ExecutedIds(reports_storage', r)
                IN  /\ Len(ids) = k
                    /\ \A i \in 1..k : ids[i] = ranked_tests[r][i]
                    /\ execute_count[r] > Len(ranked_tests[r]) => ids = ranked_tests[r] ]_vars

\* the executor is running a proper, non-empty prefix of a ranking that
\* differs from the planner's order
SelectionIsRankedPrefixWitness ==
    /\ suitePc[1] = "executing"
    /\ execute_count[1] >= 1
    /\ execute_count[1] < Len(ranked_tests[1])
    /\ ranked_tests[1] # candidate_tests[1]

\* C13: with execute_count = 0 the run meets no division fault (it can fail
\* only by a fault of the executor) and, when the executor returns, the report
\* has executed_tests = 0, success_rate = 0 and no results, and the final
\* phase is completed.
ZeroCountGivesEmptyReport ==
    [][ \A r \in SuiteRuns :
            suitePc[r] = "executing" /\ execute_count[r] = 0 /\ suitePc'[r] # "executing" =>
                /\ suitePc'[r] \in {"completed", "failed"}
                /\ suitePc'[r] = "failed" =>
                       active_tasks'[task_id[r]].message.text \in ExecutorFaults
                /\ suitePc'[r] = "completed" =>
                       LET report == reports_storage'[task_id[r]]
                       IN  /\ report.executed_tests = 0
                           /\ report.success_rate.num = 0
                           /\ report.success_rate.den # 0
                           /\ report.execution_results = << >>
                           /\ active_tasks'[task_id[r]].status = "completed"
                           /\ Last(published'[r]) = "completed" ]_vars

\* a run over all the candidates the planner can return completed with
\* nothing executed
ZeroCountGivesEmptyReportWitness ==
    /\ suitePc[1] = "completed"
    /\ IsTestReport(reports_storage[task_id[1]])
    /\ reports_storage[task_id[1]].total_candidates = MaxCandidates
    /\ reports_storage[task_id[1]].executed_tests = 0
    /\ reports_storage[task_id[1]].success_rate.num = 0

\* the results of a report whose verdict is PASS
PassPositions(report) ==
    { i \in 1..Len(report.execution_results) : report.execution_results[i].verdict = "PASS" }

\* C14: every TestReport has executed_tests = len(execution_results) and
\* success_rate = (number of PASS verdicts) / executed_tests, 0 when nothing
\* was executed; its total_candidates is the number of candidates the planner
\* returned.
ReportIsConsistent ==
    /\ [] (\A tid \in DOMAIN reports_storage :
              IsTestReport(reports_storage[tid]) =>
                  LET report == reports_storage[tid]
                  IN  /\ report.executed_tests = Len(report.execution_results)
                      /\ report.success_rate.den # 0
                      /\ report.executed_tests = 0 => report.success_rate.num = 0
                      /\ report.success_rate.num * report.executed_tests =
                             Cardinality(PassPositions(report)) * report.success_rate.den)
    /\ [][ \A r \in SuiteRuns :
               Completes(r) =>
                   reports_storage'[task_id[r]].total_candidates = Len(candidate_tests[r]) ]_vars

\* a stored report of two results, one PASS and one not
ReportIsConsistentWitness ==
    /\ suitePc[1] = "completed"
    /\ IsTestReport(reports_storage[task_id[1]])
    /\ reports_storage[task_id[1]].executed_tests = 2
    /\ Cardinality(PassPositions(reports_storage[task_id[1]])) = 1

\* C16: get_task_status is a pure read: the step of a status query changes
\* nothing of the registry (or of any other state of the run), returns the
\* observation the registry holds for the identifier, which is the last one
\* the run published, and returns not-found for an identifier for which no
\* suite was started.
StatusQueryIsPureRead ==
    [][ response' # response /\ response'.kind = "status" =>
            LET tid == response'.tid
            IN  /\ active_tasks' = active_tasks
                /\ suiteVars' = suiteVars
                /\ (\A r \in SuiteRuns : suitePc[r] = "idle" \/ task_id[r] # tid)
                       => response'.body = StatusNotFound(tid)
                /\ \A r \in SuiteRuns :
                       task_id[r] = tid /\ published[r] # << >> =>
                           /\ response'.body = active_tasks[tid]
                           /\ response'.body.status = Last(published[r]) ]_vars

\* a status query answered "executing" for the run's identifier after an
\* earlier query
StatusQueryIsPureReadWitness ==
    /\ response.kind = "status"
    /\ response.tid = task_id[1]
    /\ suitePc[1] = "executing"
    /\ response.body = active_tasks[task_id[1]]
    /\ response.body.status = "executing"

\* ------------------------------------------------------------------
\* Properties of one execute_test_case call (SpecCall)
\* ------------------------------------------------------------------
CallEnded == call.pc = "ended"

\* no call of the run faulted when closing the page or the context
ClosesCleanly == ~call.plan.pageClose /\ ~call.plan.ctxClose

\* C17: a run whose step exceeds its timeout ends as a result record with
\* verdict ERROR and is not propagated as a fault.
TimedOutRunGivesError ==
    CallEnded /\ call.plan.fault.op = "step_timeout" =>
        /\ call.out.kind = "ok"
        /\ call.out.rec.verdict = "ERROR"

\* C18: every call attempts a "start" capture, before any step is executed,
\* and the last thing it attempts before it ends is a capture: the "error"
\* one, the "end" one, or the one after the last step.
CapturesAtStartAndExit ==
    CallEnded =>
        /\ \E i \in 1..Len(call.events) : call.events[i] = Capture("start", 0)
        /\ \A i \in 1..Len(call.events) :
               call.events[i].ev = "step" =>
                   \E j \in 1..(i - 1) : call.events[j] = Capture("start", 0)
        /\ call.events # << >>
        /\ call.events[Len(call.events)] \in
               {Capture("error", 0), Capture("end", 0), Capture("step", call.tc.steps)}

\* C19: a capture that fails is not escalated and masks nothing: when the
\* only thing that fails is a capture, the call returns a record with verdict
\* PASS, and when the "error" capture fails after a fault the call still
\* returns the record of that fault.
CaptureFailureNotEscalated ==
    CallEnded =>
        /\ call.variant = "real" /\ call.plan.fault.op \in {"start", "shot"} /\ ClosesCleanly
               => call.out.kind = "ok" /\ call.out.rec.verdict = "PASS"
        /\ call.variant = "real" /\ call.plan.errShot /\ ClosesCleanly
               => call.out.kind = "ok"
        /\ call.variant = "sim" /\ call.plan.fault.op \in {"start", "end"}
               => call.out.kind = "ok"

\* ------------------------------------------------------------------
\* Properties of one generate_test_cases call (SpecPlanner)
\* ------------------------------------------------------------------
\* C20: generate_test_cases returns at most count test cases, with pairwise
\* distinct identifiers.
PlannerWithinCount ==
    planner.pc = "returned" =>
        /\ Len(planner.out) <= planner.count
        /\ \A i, j \in 1..Len(planner.out) :
               i # j => planner.out[i].id # planner.out[j].id

\* the model call failed, or its content is empty (nothing but white space
\* and separators)
PlannerInternalFailure ==
    \/ planner.reply = LlmRaises
    \/ \A i \in 1..Len(planner.reply) : planner.reply[i] = "blank"

\* C21: when the model call raises or the model returns empty content,
\* generate_test_cases (asked for at least one test case) returns the
\* fallback sequence, which is not empty.
PlannerFallsBackOnFailure ==
    planner.pc = "returned" /\ planner.count >= 1 /\ PlannerInternalFailure =>
        /\ planner.out # << >>
        /\ planner.out = GetFallbackTestCases(planner.count)

\* ------------------------------------------------------------------
\* Properties of one rank_test_cases call (SpecRanker)
\* ------------------------------------------------------------------
RankerReturned == ranker.pc = "returned"

\* where the test case at position j of the output stood in the input
InputPosition(j) == FirstWithId(ranker.test_cases, ranker.out[j].id)

\* C22: rank_test_cases returns a permutation of its input: as many test
\* cases, each input test case exactly once and nothing else, on the scoring
\* path and on the fallback path.
RankerReturnsPermutation ==
    RankerReturned =>
        /\ Len(ranker.out) = Len(ranker.test_cases)
        /\ \A i \in 1..Len(ranker.test_cases) :
               Cardinality({ j \in 1..Len(ranker.out) :
                               /\ ranker.out[j].id = ranker.test_cases[i].id
                               /\ ranker.out[j].priority = ranker.test_cases[i].priority }) = 1

\* a reply moved the last test case of a full list to the front
RankerReturnsPermutationWitness ==
    /\ RankerReturned /\ ~ranker.reply.raises
    /\ Len(ranker.test_cases) = MaxCandidates
    /\ ranker.out[1].id = MaxCandidates
    /\ \E j \in 1..Len(ranker.out) : ranker.out[j].rank_score = NoScore

\* C23: every test case rank_test_cases returns carries a rank score.
EveryCaseScored ==
    RankerReturned =>
        \A j \in 1..Len(ranker.out) : ranker.out[j].rank_score.kind # "none"

\* a >= b on floats, an absent score counting as 0 as in the sort key
KeyAtLeast(a, b) == a.kind = "num" /\ b.kind = "num" /\ a.v >= b.v

\* C24: the returned sequence is sorted descending by rank score: each test
\* case's score is at least that of the next one, and test cases with equal
\* scores are in their input order.
RankedDescending ==
    RankerReturned =>
        \A j \in 1..(Len(ranker.out) - 1) :
            /\ KeyAtLeast(SortKey(ranker.out[j]), SortKey(ranker.out[j + 1]))
            /\ SortKey(ranker.out[j]) = SortKey(ranker.out[j + 1])
                   => InputPosition(j) < InputPosition(j + 1)

PriorityRank(priority) ==
    CASE priority = "HIGH" -> 3
      [] priority = "MEDIUM" -> 2
      [] OTHER -> 1

\* C25: when ranking fails, rank_test_cases returns every test case with the
\* score of its priority (90, 70, 50), whatever score it had, every HIGH one
\* before every MEDIUM one and every MEDIUM one before every LOW one, test
\* cases of one priority in their input order.
FallbackIsPriorityOrder ==
    RankerReturned /\ ranker.reply.raises =>
        /\ Len(ranker.out) = Len(ranker.test_cases)
        /\ \A j \in 1..Len(ranker.out) :
               /\ InputPosition(j) # 0
               /\ ranker.out[j].priority = ranker.test_cases[InputPosition(j)].priority
               /\ ranker.out[j].rank_score =
                      Num(CASE ranker.out[j].priority = "HIGH" -> 90
                            [] ranker.out[j].priority = "MEDIUM" -> 70
                            [] OTHER -> 50)
        /\ \A i, j \in 1..Len(ranker.out) :
               i < j =>
                   /\ PriorityRank(ranker.out[i].priority) >= PriorityRank(ranker.out[j].priority)
                   /\ ranker.out[i].priority = ranker.out[j].priority
                          => InputPosition(i) < InputPosition(j)

\* the fallback ranked a list that came with scores and with a LOW test case
\* ahead of a HIGH one
FallbackIsPriorityOrderWitness ==
    /\ RankerReturned /\ ranker.reply.raises
    /\ Len(ranker.test_cases) = MaxCandidates
    /\ ranker.test_cases[1].priority = "LOW"
    /\ ranker.test_cases[1].rank_score # NoScore
    /\ ranker.out[1].priority = "HIGH"

\* ------------------------------------------------------------------
\* Properties of the report assembly (SpecReport)
\* ------------------------------------------------------------------
\* C26: assembling the report twice over the same result sequence gives the
\* same success rate and the same artifacts list both times, and the result
\* sequence is after each assembly what it was before.
AssemblyIsPure ==
    /\ assembly.pc \in {"once", "twice"} => assembly.execution_results = assembly.given
    /\ assembly.pc = "twice" =>
           /\ assembly.first.success_rate = assembly.second.success_rate
           /\ assembly.first.artifacts = assembly.second.artifacts

\* a full result sequence with passing and failing runs and artifacts was
\* assembled twice
AssemblyIsPureWitness ==
    /\ assembly.pc = "twice"
    /\ Len(assembly.given) = MaxTests
    /\ assembly.second.artifacts # << >>
    /\ assembly.second.success_rate.num > 0
    /\ assembly.second.success_rate.num < assembly.second.success_rate.den
    /\ \E i \in 1..Len(assembly.given) : assembly.given[i].status = "ERROR"

\* ------------------------------------------------------------------
\* Further properties of the suite runs (SpecSuite)
\* ------------------------------------------------------------------
\* C27: whenever a suite run publishes a phase, the registry afterwards holds
\* under the run's task id the observation last published (its status, read
\* at the current clock), holds an observation for no task id that had none
\* other than this one, and the observation of every other task id is what
\* it was, whichever way the suite runs interleave.
PublishTouchesOwnTaskOnly ==
    [][ \A r \in SuiteRuns :
            published'[r] # published[r] =>
                /\ DOMAIN active_tasks' = DOMAIN active_tasks \cup {task_id[r]}
                /\ active_tasks'[task_id[r]].status = published'[r][Len(published'[r])]
                /\ active_tasks'[task_id[r]].updated_at = now
                /\ \A tid \in DOMAIN active_tasks :
                       tid # task_id[r] => active_tasks'[tid] = active_tasks[tid] ]_vars

\* two suite runs with different task ids are under way, the later one
\* having published after the earlier one, each with its own observation
PublishTouchesOwnTaskOnlyWitness ==
    /\ suitePc[1] = "executing" /\ suitePc[2] = "ranking"
    /\ task_id[1] # task_id[2]
    /\ {task_id[1], task_id[2]} \subseteq DOMAIN active_tasks
    /\ active_tasks[task_id[1]].status = "executing"
    /\ active_tasks[task_id[2]].status = "ranking"
    /\ active_tasks[task_id[1]].updated_at < active_tasks[task_id[2]].updated_at

\* C29: two start requests never receive the same task id, also when they
\* arrive within the same clock second.
UniqueTaskIds ==
    \A r, q \in SuiteRuns :
        r # q /\ suitePc[r] # "idle" /\ suitePc[q] # "idle" => task_id[r] # task_id[q]

\* ------------------------------------------------------------------
\* Properties of one suite run with its batch (SpecPipeline)
\* ------------------------------------------------------------------
Published(status) == \E j \in 1..Len(published[1]) : published[1][j] = status

\* C28: no phase is published before the phase before it has handed over its
\* result: "ranking" only once the planner has returned, "executing" only
\* once the ranker has returned, and "reporting" only once execute_test_cases
\* has returned, with a result for every test case selected, every run ended,
\* no context open and the browser and the Playwright driver released.
PhasesWaitForResults ==
    /\ Published("ranking") => suitePc[1] \notin {"idle", "scheduled", "planning"}
    /\ Published("executing") =>
           /\ suitePc[1] \notin {"idle", "scheduled", "planning", "ranking"}
           /\ execPc # "idle"
    /\ Published("reporting") =>
           /\ execPc = "returned"
           /\ \A i \in Runs : runPc[i] = "done" /\ results[i] # Pending
           /\ task_id[1] \in DOMAIN reports_storage
           /\ IsTestReport(reports_storage[task_id[1]])
           /\ Len(reports_storage[task_id[1]].execution_results) = Len(test_cases)
           /\ \A i \in Runs :
                  reports_storage[task_id[1]].execution_results[i].test_case_id
                      = test_cases[i].id
           /\ open_contexts = {}
           /\ browser # "open"
           /\ playwright # "started"

\* a Playwright batch of a full selection, one of whose runs raised, was
\* reported
PhasesWaitForResultsWitness ==
    /\ Published("reporting")
    /\ variant = "real" /\ browser = "closed" /\ playwright = "stopped"
    /\ Len(test_cases) = MaxCandidates
    /\ \E i \in Runs : results[i].kind = "exc"
    /\ \E i \in Runs : results[i].kind = "ok"

\* ------------------------------------------------------------------
\* Termination of one batch (SpecExecFair)
\* ------------------------------------------------------------------
\* while gather runs, every slot is free or held by a run in progress
SlotsNeverLeak ==
    execPc = "gather" => semaphore + Cardinality(InProgress) = max_concurrent_tests

\* every waiting run is eventually admitted
WaitingRunsAdmitted ==
    \A i \in 1..MaxTests :
        (i \in Runs /\ runPc[i] = "waiting") ~> (i \in Runs /\ runPc[i] # "waiting")

\* gather eventually has every run's outcome and the batch goes on to cleanup
GatherCompletes ==
    (execPc = "gather") ~> (\A i \in Runs : runPc[i] = "done") /\ execPc # "gather"

\* C30: the slot a run took is released on every exit of the run, so no slot
\* leaks: every waiting run is eventually admitted, and execute_test_cases,
\* once it has fanned the runs out, eventually returns.
SlotsReleasedAndBatchReturns ==
    /\ []SlotsNeverLeak
    /\ WaitingRunsAdmitted
    /\ (execPc = "gather") ~> (execPc = "returned")

\* ------------------------------------------------------------------
\* The stored report of a suite run with its batch (SpecPipeline)
\* ------------------------------------------------------------------
\* how many artifact references the results before position i carry
RECURSIVE ArtifactsBefore(_, _)
ArtifactsBefore(er, i) ==
    IF i <= 1 THEN 0 ELSE ArtifactsBefore(er, i - 1) + Len(er[i - 1].artifacts)

StoredReport == reports_storage[task_id[1]]

ReportStored ==
    /\ suitePc[1] = "completed"
    /\ task_id[1] \in DOMAIN reports_storage
    /\ IsTestReport(StoredReport)

\* C31: the artifacts list of a TestReport is the concatenation, in the order
\* of execution_results, of the artifacts lists of the results: the j-th
\* artifact of the i-th result stands at position (number of artifacts of the
\* results before i) + j, and the list is as long as all of them together.
ReportArtifactsAreConcatenation ==
    ReportStored =>
        LET er == StoredReport.execution_results
        IN  /\ er = processed
            /\ Len(StoredReport.artifacts) = ArtifactsBefore(er, Len(er) + 1)
            /\ \A i \in 1..Len(er) :
                   \A j \in 1..Len(er[i].artifacts) :
                       StoredReport.artifacts[ArtifactsBefore(er, i) + j] = er[i].artifacts[j]

\* a report over a full selection whose results carry artifact lists of
\* different lengths, one of them of a run that faulted
ReportArtifactsAreConcatenationWitness ==
    /\ ReportStored
    /\ Len(StoredReport.execution_results) = MaxCandidates
    /\ \A i \in 1..MaxCandidates : StoredReport.execution_results[i].artifacts # << >>
    /\ Len(StoredReport.execution_results[1].artifacts)
           # Len(StoredReport.execution_results[2].artifacts)
    /\ \E i \in 1..MaxCandidates : StoredReport.execution_results[i].verdict = "FAIL"

\* ------------------------------------------------------------------
\* Two batches on the one BrowserService (SpecShared)
\* ------------------------------------------------------------------
\* C32: while a run of a batch is in progress, the browser it works in is
\* still the service's browser (not replaced by the other batch's
\* initialize) and is not gone (not closed, nor its driver stopped, by the
\* other batch's cleanup).
BrowserStableWhileInUse ==
    \A b \in Batches :
        \A i \in DOMAIN shared.run[b] :
            shared.run[b][i] = "in_ctx" =>
                /\ shared.uses[b][i] = shared.browser
                /\ ~Gone(shared, shared.uses[b][i])

\* ------------------------------------------------------------------
\* What the queries can see of a finished run (SpecSuite)
\* ------------------------------------------------------------------
\* C33: in every state a client can query, a task id whose status query
\* answers "completed" has a TestReport of that task id as answer of its
\* report query, and one whose status query answers "failed" has the failure
\* entry with the published error text: a terminal status is never visible
\* with the report store still empty for the task.
TerminalStatusHasReport ==
    \A tid \in QueryIds :
        LET status == StatusQuery(active_tasks, tid)
            report == ReportQuery(reports_storage, tid)
        IN  /\ status.status = "completed" =>
                   /\ report # ReportNotFound
                   /\ IsTestReport(report)
                   /\ report.task_id = tid
            /\ status.status = "failed" =>
                   /\ report # ReportNotFound
                   /\ ~IsTestReport(report)
                   /\ report.status = "failed"
                   /\ report.error = status.message.text

\* one task is seen completed and another failed while both entries are
\* stored, the failed run having ended after the completed one
TerminalStatusHasReportWitness ==
    /\ task_id[1] # task_id[2]
    /\ StatusQuery(active_tasks, task_id[1]).status = "completed"
    /\ StatusQuery(active_tasks, task_id[2]).status = "failed"
    /\ IsTestReport(ReportQuery(reports_storage, task_id[1]))
    /\ ReportQuery(reports_storage, task_id[1]).execution_results # << >>
    /\ ReportQuery(reports_storage, task_id[2]).status = "failed"

====
